---------------------------- MODULE Spec2Model ----------------------------
(***************************************************************************)
(* Polygon_Flashwich: the opportunity detection and execution engine.      *)
(*                                                                         *)
(*   src/src/fastlane_integration.rs   FastLaneClient (bundle builder and  *)
(*                                     relay submitter), BundleStatus      *)
(*   src/src/main.rs                   FlashLoanArbitrage: the mempool     *)
(*                                     monitoring loop and the orchestrator*)
(*   src/src/simulation_engine.rs      AdvancedSimulationEngine            *)
(*   src/src/lib.rs                    MevBot: block-driven loop, pricing  *)
(*                                     and route search                    *)
(*                                                                         *)
(* Profits, bids, trade sizes and reserves are counted in units of 10^15   *)
(* wei, so that 10^18 wei is 1000 and MINIMUM_PROFIT_WEI (5 * 10^16 wei)   *)
(* is 50; the amounts of the mock opportunity are the literals of the      *)
(* source.                                                                 *)
(***************************************************************************)
EXTENDS Integers, Sequences, FiniteSets, TLC

(***************************************************************************)
(* Bounds of the model.                                                    *)
(***************************************************************************)
\* The chain produces blocks 0 .. MaxBlock.
MaxBlock == 2
\* Block numbers passed by a caller of FastLaneClient range over
\* 0 .. MaxBlock + MaxAhead.
MaxAhead == 8
\* Pending transactions carry payloads of MinInputLen .. MaxInputLen bytes.
MinInputLen == 99
MaxInputLen == 102
\* The pending-transaction stream delivers at most MaxTriggers hashes.
MaxTriggers == 3
\* Bundle handles 1 .. MaxHandles.
MaxHandles == 2
\* A hop is quoted for amounts 0 .. MaxAmount against reserves 0 .. MaxReserve.
MaxAmount == 12
MaxReserve == 9
\* A factory reports at most MaxPairs pairs.
MaxPairs == 1
\* A token graph for the route search is built from at most MaxEdges pairs.
MaxEdges == 2
\* A trade is simulated over paths of 0 .. MaxPathLen addresses.
MaxPathLen == 3
\* A pair read by the route search reports reserve_in = ReserveIn (or 0 for a
\* simulated trade) and reserve_out = k * ReserveOutStep, k in
\* 0 .. MaxReserveOutSteps (units of 10^15 wei).
ReserveIn == 5000
ReserveOutStep == 10000
MaxReserveOutSteps == 3
\* The node fails at most the MaxExecutions-th arbitrage of one
\* check_opportunities.
MaxExecutions == 2

VARIABLES
    chain_block,     \* the node's latest block number
    \* ---- FastLaneClient called by its owner (fastlane_integration.rs)
    validate_out,    \* last validate_bundle_params call and its result
    build_out,       \* last create_fastlane_bundle call and its result
    last_send,       \* last submission transaction sent to the node
    \* ---- FlashLoanArbitrage::start_monitoring (main.rs)
    pc,              \* position of start_monitoring
    triggers,        \* pending-transaction hashes received so far
    tx,              \* the transaction fetched for the current trigger
    opportunity,     \* result of simulate_arbitrage_opportunity
    current_block,   \* execute_multi_leg_arbitrage: current_block
    target_block,    \* execute_multi_leg_arbitrage: target_block
    bundle,          \* execute_multi_leg_arbitrage: _bundle
    outcome,         \* how the most recently finished trigger ended
    \* ---- the relay's bundle status machine (BundleStatus)
    relay_status,    \* the relay's status of each bundle handle
    returned,        \* per handle, the last two answers of a status query
    \* ---- MevBot pricing (lib.rs)
    quote_out,       \* last per-hop quote: its inputs and its result
    trade_out,       \* last simulated trade: its inputs and its results
    routes_out,      \* last get_all_routes call: its inputs and its result
    search_out,      \* last route search: its inputs, the route, the amount
    \* ---- MevBot::monitor_blocks (lib.rs)
    bot_pc,          \* position of monitor_blocks
    last_block,      \* MevBot.last_block
    block_number,    \* monitor_blocks: block_number
    token_pairs,     \* MevBot.token_pairs: token -> list of pair addresses
    upd,             \* update_token_pairs: factory index, pairs_length, i
    rebuilt,         \* pairs pushed by the latest update_token_pairs
    checked,         \* block numbers check_opportunities was called for
    check_out        \* check_opportunities of this iteration: its outcome

vars == <<chain_block, validate_out, build_out, last_send,
          pc, triggers, tx, opportunity, current_block, target_block,
          bundle, outcome, relay_status, returned, quote_out,
          trade_out, routes_out, search_out,
          bot_pc, last_block, block_number, token_pairs, upd,
          rebuilt, checked, check_out>>

relayVars == <<validate_out, build_out>>
mempoolVars == <<pc, triggers, tx, opportunity, current_block, target_block,
                 bundle, outcome>>
statusVars == <<relay_status, returned>>
routeVars == <<trade_out, routes_out, search_out>>
pricingVars == <<quote_out, routeVars>>
botVars == <<bot_pc, last_block, block_number, token_pairs, upd,
             rebuilt, checked, check_out>>
otherVars == <<statusVars, pricingVars, botVars>>

None == "None"

Max(a, b) == IF a >= b THEN a ELSE b

(***************************************************************************)
(* The chain: block production by the network.                             *)
(***************************************************************************)
NewBlock ==
    /\ chain_block < MaxBlock
    /\ chain_block' = chain_block + 1
    /\ UNCHANGED <<relayVars, last_send, mempoolVars,
                   otherVars>>

(***************************************************************************)
(* simulation_engine.rs                                                    *)
(***************************************************************************)
\* The opportunity built at simulation_engine.rs:339-354.
MockOpportunity ==
    [token0 |-> "WETH", token1 |-> "USDC",
     amount0 |-> 100, amount1 |-> 120, fee |-> 3000,
     path |-> <<"WETH", "USDC">>, amounts |-> <<100, 120>>,
     routers |-> <<"QUICKSWAP_ROUTER", "SUSHISWAP_ROUTER">>,
     expected_profit |-> 0,
     optimal_path |-> <<"WETH", "USDC">>]

\* The mutant: a payload of exactly 100 bytes passes the pre-filter.
simulate_arbitrage_opportunity_from_100(input_len, parse_ok) ==
    IF input_len >= 100
    THEN IF parse_ok
         THEN [result |-> "Ok", value |-> <<MockOpportunity>>]
         ELSE [result |-> "Err", value |-> <<>>]
    ELSE [result |-> "Ok", value |-> <<>>]

\* simulate_arbitrage_opportunity(tx): Ok(Some(opportunity)), Ok(None) or the
\* error of an Address::from_str(..)? (parse_ok = FALSE). An Option is a
\* sequence of length 0 (None) or 1 (Some).
simulate_arbitrage_opportunity(input_len, parse_ok) ==
    IF input_len > 100
    THEN IF parse_ok
         THEN [result |-> "Ok", value |-> <<MockOpportunity>>]
         ELSE [result |-> "Err", value |-> <<>>]
    ELSE [result |-> "Ok", value |-> <<>>]

(***************************************************************************)
(* fastlane_integration.rs: FastLaneClient                                 *)
(***************************************************************************)
validate_bundle_params_late(target, current) ==
    IF target <= current
    THEN "Err: Target block must be in the future"
    ELSE IF target > current + 6
         THEN "Err: Target block too far in the future"
         ELSE "Ok"

validate_bundle_params(target, current) ==
    IF target <= current
    THEN "Err: Target block must be in the future"
    ELSE IF target > current + 5
         THEN "Err: Target block too far in the future"
         ELSE "Ok"

\* create_fastlane_bundle(opportunity, target_block): the calldata of
\* executeFlashLoanArbitrage(opportunity) wrapped with target_block; the only
\* failures are those of the ABI and calldata encoding (calldata_ok = FALSE).
create_fastlane_bundle_shifted(opp, target, calldata_ok) ==
    IF calldata_ok
    THEN [result |-> "Ok", data |-> <<"executeFlashLoanArbitrage", opp>>,
          target_block |-> target + 1]
    ELSE [result |-> "Err: Failed to generate calldata", data |-> <<>>,
          target_block |-> target]

create_fastlane_bundle(opp, target, calldata_ok) ==
    IF calldata_ok
    THEN [result |-> "Ok", data |-> <<"executeFlashLoanArbitrage", opp>>,
          target_block |-> target]
    ELSE [result |-> "Err: Failed to generate calldata", data |-> <<>>,
          target_block |-> target]

\* The outcome of the last submission attempt: the contract method sent (None
\* when nothing was issued), its target block, the node's latest block when
\* the node received it, the value attached and the caller's result.
NoSend == [kind |-> None, target_block |-> 0, latest |-> 0, value |-> 0,
           result |-> None]

BlockArgs == 0 .. (MaxBlock + MaxAhead)

\* A caller invokes validate_bundle_params(target_block, current_block).
ValidateBundleParams ==
    \E t \in BlockArgs, c \in BlockArgs :
        /\ validate_out' = [called |-> TRUE, target_block |-> t,
                            current_block |-> c,
                            result |-> validate_bundle_params(t, c)]
        /\ UNCHANGED <<chain_block, build_out, last_send, mempoolVars,
                   otherVars>>

\* A caller invokes create_fastlane_bundle(opportunity, target_block) while the
\* chain is at chain_block.
CreateFastlaneBundle ==
    \E t \in BlockArgs, ok \in BOOLEAN :
        /\ build_out' = [called |-> TRUE, at_block |-> chain_block,
                         bundle |-> create_fastlane_bundle(MockOpportunity, t, ok)]
        /\ UNCHANGED <<chain_block, validate_out, last_send, mempoolVars,
                   otherVars>>

\* submit_raw_transaction(bundle, gas_price): sendRawTransaction(data,
\* target_block) is sent and its receipt awaited; net is what the node does.
submit_raw_transaction(b, latest, net) ==
    IF net = "send_err"
    THEN [NoSend EXCEPT !.result = "Err: send"]
    ELSE [kind |-> "sendRawTransaction", target_block |-> b.target_block,
          latest |-> latest, value |-> 0,
          result |-> CASE net = "pending_err" -> "Err: pending"
                       [] net = "no_receipt" -> "Err: Transaction receipt not found"
                       [] OTHER -> "Ok"]

NetOutcomes == {"send_err", "pending_err", "no_receipt", "receipt"}

\* A caller invokes submit_raw_transaction(bundle, gas_price) with a bundle
\* create_fastlane_bundle returned.
SubmitRawTransaction ==
    /\ build_out.called
    /\ build_out.bundle.result = "Ok"
    /\ \E net \in NetOutcomes :
          last_send' = submit_raw_transaction(build_out.bundle, chain_block, net)
    /\ UNCHANGED <<chain_block, relayVars, mempoolVars,
                   otherVars>>

(***************************************************************************)
(* Initial state                                                           *)
(***************************************************************************)
Handles == 1 .. MaxHandles

\* HashMap::new()
EmptyMap == [a \in {} |-> <<>>]

NoUpdate == [factory |-> 0, pairs_length |-> 0, i |-> 0]

NoBundle == [result |-> None, data |-> <<>>, target_block |-> 0]

NoValue == [kind |-> None, value |-> 0]

Init ==
    /\ chain_block = 0
    /\ validate_out = [called |-> FALSE, target_block |-> 0,
                       current_block |-> 0, result |-> None]
    /\ build_out = [called |-> FALSE, at_block |-> 0, bundle |-> NoBundle]
    /\ last_send = NoSend
    /\ pc = "subscribe"
    /\ triggers = 0
    /\ tx = <<>>
    /\ opportunity = <<>>
    /\ current_block = 0
    /\ target_block = 0
    /\ bundle = NoBundle
    /\ outcome = None
    /\ relay_status = [h \in Handles |-> "Unknown"]
    /\ returned = [h \in Handles |-> <<None, None>>]
    /\ quote_out = [called |-> FALSE, amount |-> 0, reserve_in |-> 0,
                    reserve_out |-> 0, result |-> [kind |-> None, value |-> 0]]
    /\ trade_out = [called |-> FALSE, reserves |-> EmptyMap, path |-> <<>>,
                    amount |-> 0, with_amount |-> NoValue, unit |-> NoValue]
    /\ routes_out = [called |-> FALSE, token_pairs |-> EmptyMap,
                     token_in |-> None, token_out |-> None,
                     result |-> [kind |-> None, routes |-> <<>>]]
    /\ search_out = [called |-> FALSE, token_pairs |-> EmptyMap,
                     reserves |-> EmptyMap, token_in |-> None,
                     token_out |-> None,
                     route |-> [kind |-> None, route |-> <<>>],
                     amount |-> NoValue]
    /\ bot_pc = "poll"
    /\ last_block = chain_block
    /\ block_number = 0
    /\ token_pairs = EmptyMap
    /\ upd = NoUpdate
    /\ rebuilt = 0
    /\ checked = <<>>
    /\ check_out = [called |-> FALSE, result |-> None, visited |-> <<>>]

\* validate_bundle_params, a function of its two arguments alone.
NextValidate ==
    \/ ValidateBundleParams

SpecValidate == Init /\ [][NextValidate]_vars

\* The bundle builder and the relay submitter beside the chain.
NextRelay ==
    \/ NewBlock
    \/ CreateFastlaneBundle
    \/ SubmitRawTransaction

SpecRelay == Init /\ [][NextRelay]_vars

(***************************************************************************)
(* C1: validate_bundle_params(target_block, current_block) returns Ok if   *)
(* and only if current_block < target_block <= current_block + 5, and an   *)
(* error for every target_block <= current_block and every target_block >  *)
(* current_block + 5.                                                      *)
(***************************************************************************)
C1_ValidateWindow ==
    validate_out.called =>
        LET t == validate_out.target_block
            c == validate_out.current_block
        IN /\ (validate_out.result = "Ok") <=> (c < t /\ t <= c + 5)
           /\ (t <= c) => validate_out.result = "Err: Target block must be in the future"
           /\ (t > c + 5) => validate_out.result = "Err: Target block too far in the future"

\* The last accepted target: five blocks ahead of a current block above 0.
C1_Witness ==
    /\ validate_out.called
    /\ validate_out.current_block > 0
    /\ validate_out.target_block = validate_out.current_block + 5
    /\ validate_out.result = "Ok"

(***************************************************************************)
(* C2: no submission transaction (the send of submit_raw_transaction or of *)
(* execute_multi_leg_arbitrage) is issued for a bundle whose target block  *)
(* is at or below the latest block or more than 5 blocks ahead of it.      *)
(***************************************************************************)
C2_NoInvalidTargetSent ==
    last_send.kind # None =>
        /\ last_send.latest < last_send.target_block
        /\ last_send.target_block <= last_send.latest + 5

(***************************************************************************)
(* C3: create_fastlane_bundle accepts a target block equal to the current  *)
(* block + 1 and rejects every other target block with StaleTarget,        *)
(* producing no bundle.                                                    *)
(***************************************************************************)
C3_BuilderRejectsStaleTarget ==
    build_out.called =>
        IF build_out.bundle.target_block = build_out.at_block + 1
        THEN build_out.bundle.result # "Err: StaleTarget"
        ELSE /\ build_out.bundle.result = "Err: StaleTarget"
             /\ build_out.bundle.data = <<>>

(***************************************************************************)
(* main.rs: FlashLoanArbitrage                                             *)
(***************************************************************************)
InputLens == MinInputLen .. MaxInputLen

\* The stages of one trigger inside the loop of start_monitoring.
Stages == {"get_transaction", "simulate", "get_block", "create_bundle",
           "send", "receipt"}

\* The value attached to executeArbitrageWithFastLane (main.rs:146).
bid_value(opp) == opp.expected_profit

\* let mut stream = self.provider.subscribe_pending_txs().await?;
Subscribe ==
    /\ pc = "subscribe"
    /\ \E ok \in BOOLEAN : pc' = IF ok THEN "next" ELSE "returned_err"
    /\ UNCHANGED <<chain_block, relayVars, last_send, triggers, tx,
                   opportunity, current_block, target_block, bundle, outcome,
                   otherVars>>

\* while let Some(tx_hash) = stream.next().await: the stream delivers a hash
\* and a new iteration starts with fresh locals.
StreamNextSpawning ==
    /\ pc \in Stages \cup {"next"}
    /\ triggers < MaxTriggers
    /\ triggers' = triggers + 1
    /\ pc' = "get_transaction"
    /\ tx' = <<>>
    /\ opportunity' = <<>>
    /\ current_block' = 0
    /\ target_block' = 0
    /\ bundle' = NoBundle
    /\ UNCHANGED <<chain_block, relayVars, last_send, outcome,
                   otherVars>>

StreamNext ==
    /\ pc = "next"
    /\ triggers < MaxTriggers
    /\ triggers' = triggers + 1
    /\ pc' = "get_transaction"
    /\ tx' = <<>>
    /\ opportunity' = <<>>
    /\ current_block' = 0
    /\ target_block' = 0
    /\ bundle' = NoBundle
    /\ UNCHANGED <<chain_block, relayVars, last_send, outcome,
                   otherVars>>

\* stream.next() yields None (the subscription ended): the loop is left and
\* start_monitoring returns Ok(()).
StreamEnd ==
    /\ pc = "next"
    /\ pc' = "returned_ok"
    /\ UNCHANGED <<chain_block, relayVars, last_send, triggers, tx,
                   opportunity, current_block, target_block, bundle, outcome,
                   otherVars>>

\* The mutant: the fetch error is propagated with ? instead of being matched.
GetTransactionPropagates ==
    /\ pc = "get_transaction"
    /\ \E r \in {"found", "not_found", "error"} :
          CASE r = "found" ->
                 /\ \E len \in InputLens : tx' = <<[input_len |-> len]>>
                 /\ pc' = "simulate"
                 /\ UNCHANGED outcome
            [] r = "not_found" ->
                 /\ outcome' = "tx_not_found"
                 /\ pc' = "next"
                 /\ UNCHANGED tx
            [] OTHER ->
                 /\ outcome' = "tx_fetch_error"
                 /\ pc' = "returned_err"
                 /\ UNCHANGED tx
    /\ UNCHANGED <<chain_block, relayVars, last_send, triggers,
                   opportunity, current_block, target_block, bundle,
                   otherVars>>

\* let tx_result = self.provider.get_transaction(tx_hash).await; match ...
GetTransaction ==
    /\ pc = "get_transaction"
    /\ \E r \in {"found", "not_found", "error"} :
          CASE r = "found" ->
                 /\ \E len \in InputLens : tx' = <<[input_len |-> len]>>
                 /\ pc' = "simulate"
                 /\ UNCHANGED outcome
            [] r = "not_found" ->
                 /\ outcome' = "tx_not_found"
                 /\ pc' = "next"
                 /\ UNCHANGED tx
            [] OTHER ->
                 /\ outcome' = "tx_fetch_error"
                 /\ pc' = "next"
                 /\ UNCHANGED tx
    /\ UNCHANGED <<chain_block, relayVars, last_send, triggers,
                   opportunity, current_block, target_block, bundle,
                   otherVars>>

\* match self.engine.simulate_arbitrage_opportunity(&tx).await
Simulate ==
    /\ pc = "simulate"
    /\ \E parse_ok \in BOOLEAN :
          LET r == simulate_arbitrage_opportunity(tx[1].input_len, parse_ok)
          IN CASE r.result = "Ok" /\ r.value # <<>> ->
                    /\ opportunity' = r.value
                    /\ pc' = "get_block"
                    /\ UNCHANGED outcome
               [] r.result = "Ok" /\ r.value = <<>> ->
                    /\ outcome' = "no_opportunity"
                    /\ pc' = "next"
                    /\ UNCHANGED opportunity
               [] OTHER ->
                    /\ outcome' = "simulation_error"
                    /\ pc' = "next"
                    /\ UNCHANGED opportunity
    /\ UNCHANGED <<chain_block, relayVars, last_send, triggers, tx,
                   current_block, target_block, bundle,
                   otherVars>>

\* execute_multi_leg_arbitrage, main.rs:109-120: the routers check, then the
\* node answers get_block(Latest) and target_block is computed.
ExecGetBlock ==
    /\ pc = "get_block"
    /\ IF opportunity[1].routers = <<>>
       THEN /\ outcome' = "execution_failed"
            /\ pc' = "next"
            /\ UNCHANGED <<current_block, target_block>>
       ELSE \E r \in {"block", "rpc_err", "no_block", "no_number"} :
              IF r = "block"
              THEN /\ current_block' = chain_block
                   /\ target_block' = chain_block + 1
                   /\ pc' = "create_bundle"
                   /\ UNCHANGED outcome
              ELSE /\ outcome' = "execution_failed"
                   /\ pc' = "next"
                   /\ UNCHANGED <<current_block, target_block>>
    /\ UNCHANGED <<chain_block, relayVars, last_send, triggers, tx,
                   opportunity, bundle,
                   otherVars>>

\* main.rs:123-125: let _bundle = create_fastlane_bundle(opportunity,
\* target_block).await?
ExecCreateBundle ==
    /\ pc = "create_bundle"
    /\ \E ok \in BOOLEAN :
          LET b == create_fastlane_bundle(opportunity[1], target_block, ok)
          IN IF b.result = "Ok"
             THEN /\ bundle' = b
                  /\ pc' = "send"
                  /\ UNCHANGED outcome
             ELSE /\ outcome' = "execution_failed"
                  /\ pc' = "next"
                  /\ UNCHANGED bundle
    /\ UNCHANGED <<chain_block, relayVars, last_send, triggers, tx,
                   opportunity, current_block, target_block,
                   otherVars>>

\* main.rs:142-148: execute_arbitrage_with_fast_lane(opportunity,
\* target_block).value(..).send().await?: the node receives the transaction.
ExecSend ==
    /\ pc = "send"
    /\ \E send_ok \in BOOLEAN :
          IF send_ok
          THEN /\ last_send' = [kind |-> "executeArbitrageWithFastLane",
                                target_block |-> target_block,
                                latest |-> chain_block,
                                value |-> bid_value(opportunity[1]),
                                result |-> "pending"]
               /\ pc' = "receipt"
               /\ UNCHANGED outcome
          ELSE /\ outcome' = "execution_failed"
               /\ pc' = "next"
               /\ UNCHANGED last_send
    /\ UNCHANGED <<chain_block, relayVars, triggers, tx, opportunity,
                   current_block, target_block, bundle,
                   otherVars>>

\* main.rs:149-152: the pending transaction is awaited; a receipt, an error or
\* no receipt ("No receipt returned").
ExecReceipt ==
    /\ pc = "receipt"
    /\ \E r \in {"receipt", "pending_err", "no_receipt"} :
          /\ outcome' = IF r = "receipt" THEN "executed" ELSE "execution_failed"
          /\ last_send' = [last_send EXCEPT
                              !.result = IF r = "receipt" THEN "Ok" ELSE "Err"]
    /\ pc' = "next"
    /\ UNCHANGED <<chain_block, relayVars, triggers, tx, opportunity,
                   current_block, target_block, bundle,
                   otherVars>>

NextMempool ==
    \/ NewBlock
    \/ Subscribe
    \/ StreamNext
    \/ StreamEnd
    \/ GetTransaction
    \/ Simulate
    \/ ExecGetBlock
    \/ ExecCreateBundle
    \/ ExecSend
    \/ ExecReceipt

SpecMempool == Init /\ [][NextMempool]_vars

(***************************************************************************)
(* C4: the bid paid with a submission is max(80% of expected_profit with   *)
(* floor division, minimum bid): 800 for expected_profit 1000 and minimum  *)
(* bid 1 (in units of 10^15 wei), and the minimum bid for expected_profit  *)
(* 0.                                                                      *)
(***************************************************************************)
C4_BidIsEightyPercentFloored ==
    (pc = "receipt" /\ last_send.kind = "executeArbitrageWithFastLane") =>
        LET minimum_bid == 1
        IN last_send.value =
               Max((opportunity[1].expected_profit * 80) \div 100, minimum_bid)

(***************************************************************************)
(* C5: every opportunity returned by simulate_arbitrage_opportunity has    *)
(* expected_profit >= the minimum-profit threshold.                        *)
(***************************************************************************)
MINIMUM_PROFIT_WEI == 50

C5_OpportunityClearsThreshold ==
    opportunity # <<>> => opportunity[1].expected_profit >= MINIMUM_PROFIT_WEI

(***************************************************************************)
(* C6: whatever the outcome of a trigger's stages (fetch not-found or      *)
(* error, evaluation None or error, execution receipt or error), the loop  *)
(* of start_monitoring goes on to await the next trigger: a step that      *)
(* leaves the stages of a trigger leads to stream.next(), never to a       *)
(* return.                                                                 *)
(***************************************************************************)
C6_LoopSurvivesStageFailures ==
    [][(pc \in Stages /\ pc' \notin Stages) => pc' = "next"]_vars

\* A further trigger is being processed after an execution failed.
C6_Witness ==
    /\ pc = "get_transaction"
    /\ triggers >= 2
    /\ outcome = "execution_failed"

(***************************************************************************)
(* C18: every bundle built by execute_multi_leg_arbitrage carries the      *)
(* latest block number read in that same execution plus one as its target  *)
(* block.                                                                  *)
(***************************************************************************)
C18_TargetIsReadBlockPlusOne ==
    bundle.result = "Ok" =>
        /\ bundle.target_block = current_block + 1
        /\ target_block = current_block + 1

\* A bundle was built from a block above 0 and the chain has moved on since.
C18_Witness ==
    /\ pc = "send"
    /\ bundle.result = "Ok"
    /\ current_block > 0
    /\ chain_block > current_block

(***************************************************************************)
(* C19: under every interleaving of block production with the awaits of    *)
(* execute_multi_leg_arbitrage, when the submission is sent its target     *)
(* block still equals the chain's latest block plus one.                   *)
(***************************************************************************)
C19_TargetFreshAtSubmission ==
    last_send.kind = "executeArbitrageWithFastLane" =>
        last_send.target_block = last_send.latest + 1

(***************************************************************************)
(* C20: in the loop of start_monitoring a trigger is taken from the stream *)
(* only when no trigger is between the start of its fetch and the end of   *)
(* its evaluate, build and submit stages, and triggers are taken one by    *)
(* one in the order of their delivery.                                     *)
(***************************************************************************)
C20_OneTriggerAtATime ==
    [][(triggers' # triggers) =>
           /\ pc \notin Stages
           /\ pc = "next"
           /\ pc' = "get_transaction"
           /\ triggers' = triggers + 1]_vars

\* A later trigger is in its stages after an earlier one ran to its receipt.
C20_Witness ==
    /\ pc \in Stages
    /\ triggers >= 2
    /\ outcome = "executed"

(***************************************************************************)
(* C22: for a pending transaction whose input payload is 100 bytes or      *)
(* shorter, simulate_arbitrage_opportunity returns None: the trigger goes  *)
(* from the simulation straight back to the stream with no opportunity,    *)
(* no bundle is built and nothing is sent for it; bundles are built and    *)
(* transactions sent only for payloads longer than 100 bytes.              *)
(***************************************************************************)
C22_ShortPayloadIsFiltered ==
    [][/\ (pc = "simulate" /\ tx[1].input_len <= 100 /\ pc' # pc) =>
              /\ pc' = "next"
              /\ outcome' = "no_opportunity"
              /\ opportunity' = opportunity
       /\ (bundle' \notin {bundle, NoBundle} \/ last_send' # last_send) =>
              /\ tx # <<>>
              /\ tx[1].input_len > 100
       /\ (pc' \in {"get_block", "create_bundle", "send", "receipt"}) =>
              tx'[1].input_len > 100]_vars

\* A trigger with a payload of exactly 100 bytes was dropped by the pre-filter
\* with no bundle built, after an earlier trigger had its transaction sent.
C22_Witness ==
    /\ pc = "next"
    /\ outcome = "no_opportunity"
    /\ tx # <<>>
    /\ tx[1].input_len = 100
    /\ triggers >= 2
    /\ bundle = NoBundle
    /\ last_send.kind # None

(***************************************************************************)
(* The bundle status machine of the relay (BundleStatus,                   *)
(* fastlane_integration.rs:85-91). The source declares the enumeration     *)
(* only; the transitions and the status query follow the specification:    *)
(* Unknown -> Pending -> {Included | Replaced}, a query being a read.      *)
(***************************************************************************)
BundleStatus == {"Unknown", "Pending", "Included", "Replaced"}

Terminal == {"Included", "Replaced"}

\* The mutant: a reorganisation replaces a bundle that was already included.
next_status_reorg(s, event) ==
    CASE s = "Unknown" /\ event = "accept" -> "Pending"
      [] s = "Pending" /\ event = "include" -> "Included"
      [] s = "Pending" /\ event = "replace" -> "Replaced"
      [] s = "Included" /\ event = "replace" -> "Replaced"
      [] OTHER -> s

\* The status after a relay event; an event that does not apply changes nothing.
next_status(s, event) ==
    CASE s = "Unknown" /\ event = "accept" -> "Pending"
      [] s = "Pending" /\ event = "include" -> "Included"
      [] s = "Pending" /\ event = "replace" -> "Replaced"
      [] OTHER -> s

\* status(handle): a side-effect-free read of the relay's status.
status(h) == relay_status[h]

\* The relay accepts, includes or replaces the bundle of a handle.
RelayEvent ==
    \E h \in Handles, event \in {"accept", "include", "replace"} :
        /\ next_status(relay_status[h], event) # relay_status[h]
        /\ relay_status' = [relay_status EXCEPT
                               ![h] = next_status(relay_status[h], event)]
        /\ UNCHANGED <<chain_block, relayVars, last_send, mempoolVars,
                       returned, pricingVars, botVars>>

\* A status query on a handle; its answer is kept with the one before it.
QueryStatus ==
    \E h \in Handles :
        /\ returned' = [returned EXCEPT ![h] = <<returned[h][2], status(h)>>]
        /\ UNCHANGED <<chain_block, relayVars, last_send, mempoolVars,
                       relay_status, pricingVars, botVars>>

NextStatus ==
    \/ RelayEvent
    \/ QueryStatus

SpecStatus == Init /\ [][NextStatus]_vars

(***************************************************************************)
(* C8: a handle the relay never observed returns Unknown, and once a       *)
(* status query on a handle has returned Included or Replaced, every later *)
(* query on that handle returns the same terminal value.                   *)
(***************************************************************************)
C8_TerminalStatusIsFinal ==
    \A h \in Handles :
        /\ (relay_status[h] = "Unknown" /\ returned[h][2] # None)
               => returned[h][2] = "Unknown"
        /\ returned[h][1] \in Terminal => returned[h][2] = returned[h][1]

\* Two successive queries on a handle both answered Replaced, and a query on
\* a handle never observed answered Unknown.
C8_Witness ==
    \E h, g \in Handles :
        /\ returned[h] = <<"Replaced", "Replaced">>
        /\ relay_status[g] = "Unknown"
        /\ returned[g][2] = "Unknown"

(***************************************************************************)
(* lib.rs: MevBot pricing                                                  *)
(***************************************************************************)
\* The mutant: the input amount is left out of the denominator.
quote_spot(current_amount, reserve_in, reserve_out) ==
    IF reserve_in = 0
    THEN [kind |-> "Panic", value |-> 0]
    ELSE [kind |-> "Ok",
          value |-> (current_amount * reserve_out) \div reserve_in]

\* One hop (lib.rs:322 and 362):
\*   (current_amount * reserve_out) / (reserve_in + current_amount)
\* in U256, whose division panics on a zero divisor. The reserves are u128
\* values and an amount is at most 10^19 or the output of the hop before, so
\* neither the product nor the sum leaves 256 bits.
quote(current_amount, reserve_in, reserve_out) ==
    IF reserve_in + current_amount = 0
    THEN [kind |-> "Panic", value |-> 0]
    ELSE [kind |-> "Ok",
          value |-> (current_amount * reserve_out)
                        \div (reserve_in + current_amount)]

\* A hop is quoted for an amount against the reserves get_reserves returned.
QuoteHop ==
    \E a \in 0 .. MaxAmount, ri \in 0 .. MaxReserve, ro \in 0 .. MaxReserve :
        /\ quote_out' = [called |-> TRUE, amount |-> a, reserve_in |-> ri,
                         reserve_out |-> ro, result |-> quote(a, ri, ro)]
        /\ UNCHANGED <<chain_block, relayVars, last_send, mempoolVars,
                       statusVars, routeVars, botVars>>

NextPricing ==
    \/ QuoteHop

SpecPricing == Init /\ [][NextPricing]_vars

(***************************************************************************)
(* C9: for reserve_in > 0, reserve_out > 0 and amount_in >= 0 the per-hop  *)
(* quote is monotonically non-decreasing in amount_in (no smaller amount   *)
(* is quoted more) and strictly less than reserve_out.                     *)
(***************************************************************************)
C9_QuoteMonotoneBelowReserve ==
    (quote_out.called /\ quote_out.reserve_in > 0 /\ quote_out.reserve_out > 0) =>
        /\ quote_out.result.kind = "Ok"
        /\ quote_out.result.value < quote_out.reserve_out
        /\ \A a \in 0 .. quote_out.amount :
              LET smaller == quote(a, quote_out.reserve_in, quote_out.reserve_out)
              IN /\ smaller.kind = "Ok"
                 /\ smaller.value <= quote_out.result.value

\* A quote that takes most of the pool: a positive output one short of
\* reserve_out, above the quote of a smaller amount.
C9_Witness ==
    /\ quote_out.called
    /\ quote_out.reserve_in > 0
    /\ quote_out.amount > 1
    /\ quote_out.result.kind = "Ok"
    /\ quote_out.result.value > 0
    /\ quote_out.result.value = quote_out.reserve_out - 1
    /\ quote(1, quote_out.reserve_in, quote_out.reserve_out).value
           < quote_out.result.value

(***************************************************************************)
(* C10: whenever reserve_in or reserve_out is zero the per-hop quote fails *)
(* with InsufficientLiquidity: it returns no amount and does not panic.    *)
(***************************************************************************)
C10_ZeroReserveIsInsufficientLiquidity ==
    (quote_out.called /\ (quote_out.reserve_in = 0 \/ quote_out.reserve_out = 0)) =>
        quote_out.result.kind = "Err: InsufficientLiquidity"

(***************************************************************************)
(* C11: the per-hop quote deducts the proportional fee of 0.3% from        *)
(* amount_in before the constant-product formula: the output is            *)
(* a' * reserve_out / (reserve_in + a') with a' = amount_in * 997 / 1000,  *)
(* that is (997 * a * r_out) / (1000 * r_in + 997 * a) in floor division,  *)
(* and so is never greater than the fee-free value.                        *)
(***************************************************************************)
C11_QuoteDeductsFee ==
    (quote_out.called /\ quote_out.reserve_in > 0 /\ quote_out.reserve_out > 0) =>
        LET a == quote_out.amount
            fee_free == (a * quote_out.reserve_out)
                            \div (quote_out.reserve_in + a)
            after_fee == (997 * a * quote_out.reserve_out)
                            \div (1000 * quote_out.reserve_in + 997 * a)
        IN /\ quote_out.result.kind = "Ok"
           /\ quote_out.result.value = after_fee
           /\ quote_out.result.value <= fee_free

(***************************************************************************)
(* lib.rs: MevBot token graph                                              *)
(***************************************************************************)
\* Addresses of tokens and pairs as the node reports them.
Addr == {"A", "B", "C"}

\* The addresses the factories report to the block-driven loop.
PairAddr == {"A", "B"}

\* dex_factories: QUICKSWAP_FACTORY, SUSHISWAP_FACTORY (lib.rs:84-87).
NumFactories == 2

\* self.token_pairs.entry(k).or_insert_with(Vec::new).push(v)
push(tp, k, v) ==
    IF k \in DOMAIN tp
    THEN [tp EXCEPT ![k] = Append(@, v)]
    ELSE [a \in DOMAIN tp \cup {k} |-> IF a = k THEN <<v>> ELSE tp[a]]

\* The position after the pairs of factory f are done: the next factory, or
\* check_opportunities once update_token_pairs has returned Ok.
after_factory(f) ==
    IF f < NumFactories
    THEN [pc |-> "update_factory",
          upd |-> [factory |-> f + 1, pairs_length |-> 0, i |-> 0]]
    ELSE [pc |-> "check", upd |-> NoUpdate]

(***************************************************************************)
(* lib.rs: MevBot trade simulation                                         *)
(***************************************************************************)
\* 1_000_000_000_000_000_000 wei, "1 MATIC", in units of 10^15 wei.
ONE_MATIC == 1000

\* What the node answers to getReserves() of each address: <<reserve0,
\* reserve1>>, or <<>> when the call fails.
ReserveOuts == {k * ReserveOutStep : k \in 0 .. MaxReserveOutSteps}

TradeReserves ==
    [Addr -> ({0, ReserveIn} \X ReserveOuts) \cup {<<>>}]

\* get_reserves(pair) (lib.rs:284-288)
get_reserves(reserves, pair) ==
    IF reserves[pair] = <<>>
    THEN [kind |-> "Err", reserve_in |-> 0, reserve_out |-> 0]
    ELSE [kind |-> "Ok", reserve_in |-> reserves[pair][1],
          reserve_out |-> reserves[pair][2]]

\* for i in 0..path.len() - 1 { .. }: the iterations from index i (1-based)
\* on, current_amount being the running amount. The result is the final
\* current_amount, the error of a failed read, or the panic of a division by
\* zero.
RECURSIVE trade_hops(_, _, _, _)
trade_hops(reserves, path, i, current_amount) ==
    IF i > Len(path) - 1
    THEN [kind |-> "Ok", value |-> current_amount]
    ELSE LET r == get_reserves(reserves, path[i])
         IN IF r.kind # "Ok"
            THEN [kind |-> "Err", value |-> 0]
            ELSE LET q == quote(current_amount, r.reserve_in, r.reserve_out)
                 IN IF q.kind # "Ok"
                    THEN [kind |-> "Panic", value |-> 0]
                    ELSE trade_hops(reserves, path, i + 1, q.value)

\* The mutant: the final subtraction without the comparison before it.
simulate_trade_with_amount_unguarded(reserves, path, amount) ==
    IF path = <<>>
    THEN [kind |-> "Panic", value |-> 0]
    ELSE LET final == trade_hops(reserves, path, 1, amount)
         IN IF final.kind # "Ok"
            THEN final
            ELSE [kind |-> "Ok", value |-> final.value - amount]

\* simulate_trade_with_amount(path, amount) (lib.rs:353-370). An empty path
\* makes path.len() - 1 underflow: a panic there, or at path[0] where the
\* subtraction wraps.
simulate_trade_with_amount(reserves, path, amount) ==
    IF path = <<>>
    THEN [kind |-> "Panic", value |-> 0]
    ELSE LET final == trade_hops(reserves, path, 1, amount)
         IN IF final.kind # "Ok"
            THEN final
            ELSE [kind |-> "Ok",
                  value |-> IF final.value > amount
                            THEN final.value - amount
                            ELSE 0]

\* simulate_trade(path) (lib.rs:316-330): the same loop from 1 MATIC.
simulate_trade(reserves, path) ==
    LET amount == ONE_MATIC
    IN IF path = <<>>
       THEN [kind |-> "Panic", value |-> 0]
       ELSE LET final == trade_hops(reserves, path, 1, amount)
            IN IF final.kind # "Ok"
               THEN final
               ELSE [kind |-> "Ok",
                     value |-> IF final.value > amount
                               THEN final.value - amount
                               ELSE 0]

\* The trade sizes of calculate_optimal_amount (lib.rs:336-340).
TradeSizes == <<ONE_MATIC, 5 * ONE_MATIC, 10 * ONE_MATIC>>

Paths == UNION {[1 .. n -> Addr] : n \in 0 .. MaxPathLen}

\* A caller simulates one trade over a path, with both functions.
SimulateTrade ==
    /\ ~trade_out.called
    /\ \E reserves \in TradeReserves, path \in Paths,
          k \in 1 .. Len(TradeSizes) :
          trade_out' = [called |-> TRUE, reserves |-> reserves, path |-> path,
                        amount |-> TradeSizes[k],
                        with_amount |->
                            simulate_trade_with_amount(reserves, path,
                                                       TradeSizes[k]),
                        unit |-> simulate_trade(reserves, path)]
    /\ UNCHANGED <<chain_block, relayVars, last_send, mempoolVars,
                   statusVars, quote_out, routes_out, search_out, botVars>>

NextTrade ==
    \/ SimulateTrade

SpecTrade == Init /\ [][NextTrade]_vars

(***************************************************************************)
(* C12: the path profit (simulate_trade, simulate_trade_with_amount)       *)
(* chains the quote over the consecutive hops of the path and returns      *)
(* final_output - initial_input when final_output > initial_input and 0    *)
(* otherwise: it is never negative and is 0 when the final output equals   *)
(* the initial input.                                                      *)
(***************************************************************************)
C12_PathProfitSaturates ==
    LET path == trade_out.path
        r == trade_out.reserves
        hop(a, p) == (a * r[p][2]) \div (r[p][1] + a)
        chained(a) ==
            CASE Len(path) = 1 -> a
              [] Len(path) = 2 -> hop(a, path[1])
              [] Len(path) = 3 -> hop(hop(a, path[1]), path[2])
              [] OTHER -> hop(hop(hop(a, path[1]), path[2]), path[3])
        profit(a) == IF chained(a) > a THEN chained(a) - a ELSE 0
    IN /\ (trade_out.called /\ trade_out.with_amount.kind = "Ok") =>
              /\ trade_out.with_amount.value = profit(trade_out.amount)
              /\ trade_out.with_amount.value >= 0
              /\ (chained(trade_out.amount) = trade_out.amount)
                     => trade_out.with_amount.value = 0
       /\ (trade_out.called /\ trade_out.unit.kind = "Ok") =>
              /\ trade_out.unit.value = profit(ONE_MATIC)
              /\ trade_out.unit.value >= 0

\* A two-hop trade that loses on its second hop what it won on its first
\* ends with profit 0.
C12_Witness ==
    /\ trade_out.called
    /\ Len(trade_out.path) = 3
    /\ trade_out.path[1] # trade_out.path[2]
    /\ trade_out.with_amount.kind = "Ok"
    /\ trade_out.with_amount.value = 0
    /\ simulate_trade_with_amount(trade_out.reserves,
                                  SubSeq(trade_out.path, 1, 2),
                                  trade_out.amount).value > 0

(***************************************************************************)
(* lib.rs: MevBot route search                                             *)
(***************************************************************************)
\* update_token_pairs, lib.rs:182-187: the pair t[1] is pushed under its
\* token0 t[2] and under its token1 t[3].
add_pair(tp, t) == push(push(tp, t[2], t[1]), t[3], t[1])

\* The token graph update_token_pairs builds from the pairs the factories
\* report, in their order.
RECURSIVE build_token_pairs(_)
build_token_pairs(pairs) ==
    IF pairs = <<>>
    THEN EmptyMap
    ELSE add_pair(build_token_pairs(SubSeq(pairs, 1, Len(pairs) - 1)),
                  pairs[Len(pairs)])

\* The graphs of at most MaxEdges pairs <<pair_address, token0, token1>>.
TokenGraphs ==
    {build_token_pairs(pairs) :
        pairs \in UNION {[1 .. n -> Addr \X Addr \X Addr] : n \in 0 .. MaxEdges}}

\* lib.rs:304-309: for &next_pair in next_pairs from index j on; route is the
\* vector the loop pushes onto and clones.
RECURSIVE routes_via(_, _, _, _)
routes_via(next_pairs, j, route, token_out) ==
    IF j > Len(next_pairs)
    THEN <<>>
    ELSE IF next_pairs[j] = token_out
         THEN <<Append(route, next_pairs[j])>>
                  \o routes_via(next_pairs, j + 1,
                                Append(route, next_pairs[j]), token_out)
         ELSE routes_via(next_pairs, j + 1, route, token_out)

\* lib.rs:299-311: for &pair in pairs from index i on.
RECURSIVE routes_from(_, _, _, _, _)
routes_from(tp, pairs, i, token_in, token_out) ==
    IF i > Len(pairs)
    THEN <<>>
    ELSE LET pair == pairs[i]
             route == <<token_in, pair>>
             found == IF pair = token_out
                      THEN <<route>>
                      ELSE IF pair \in DOMAIN tp
                           THEN routes_via(tp[pair], 1, route, token_out)
                           ELSE <<>>
         IN found \o routes_from(tp, pairs, i + 1, token_in, token_out)

\* The mutant: a token without an entry has no routes.
get_all_routes_lenient(tp, token_in, token_out) ==
    IF token_in \notin DOMAIN tp
    THEN [kind |-> "Ok", routes |-> <<>>]
    ELSE [kind |-> "Ok",
          routes |-> routes_from(tp, tp[token_in], 1, token_in, token_out)]

\* get_all_routes(token_in, token_out) (lib.rs:290-314)
get_all_routes(tp, token_in, token_out) ==
    IF token_in \notin DOMAIN tp
    THEN [kind |-> "Err: No pairs found for input token", routes |-> <<>>]
    ELSE [kind |-> "Ok",
          routes |-> routes_from(tp, tp[token_in], 1, token_in, token_out)]

\* A caller enumerates the routes between two distinct tokens of a graph.
GetAllRoutes ==
    /\ ~routes_out.called
    /\ \E tp \in TokenGraphs, token_in \in Addr, token_out \in Addr :
          /\ token_in # token_out
          /\ routes_out' = [called |-> TRUE, token_pairs |-> tp,
                            token_in |-> token_in, token_out |-> token_out,
                            result |-> get_all_routes(tp, token_in, token_out)]
    /\ UNCHANGED <<chain_block, relayVars, last_send, mempoolVars,
                   statusVars, quote_out, trade_out, search_out, botVars>>

NextRoutes ==
    \/ GetAllRoutes

SpecRoutes == Init /\ [][NextRoutes]_vars

(***************************************************************************)
(* C13: the route search never returns a path with a repeated identifier:  *)
(* for every token graph and every token_in # token_out, each route of     *)
(* get_all_routes (and so the route find_optimal_route picks among them)   *)
(* has pairwise distinct elements.                                         *)
(***************************************************************************)
C13_RoutesHaveNoRepeats ==
    routes_out.called =>
        \A n \in 1 .. Len(routes_out.result.routes) :
            LET route == routes_out.result.routes[n]
            IN \A i \in 1 .. Len(route), j \in 1 .. Len(route) :
                  i # j => route[i] # route[j]

(***************************************************************************)
(* C17: the route search fails with the no-path error ("No pairs found     *)
(* for input token") when token_in has no entry in the token graph, and    *)
(* does not fail when token_in has an entry, even if no route reaches      *)
(* token_out: the route list is then empty.                                *)
(***************************************************************************)
C17_NoPathErrorIffNoEntry ==
    routes_out.called =>
        /\ (routes_out.token_in \notin DOMAIN routes_out.token_pairs)
               => routes_out.result.kind = "Err: No pairs found for input token"
        /\ (routes_out.token_in \in DOMAIN routes_out.token_pairs)
               => routes_out.result.kind = "Ok"

\* token_in has an entry and token_out none: Ok with an empty route list.
C17_Witness ==
    /\ routes_out.called
    /\ routes_out.token_in \in DOMAIN routes_out.token_pairs
    /\ routes_out.token_out \notin DOMAIN routes_out.token_pairs
    /\ routes_out.result.kind = "Ok"
    /\ routes_out.result.routes = <<>>

\* The mutant: a route is taken when its profit is not below the best.
RECURSIVE best_route_from_weak(_, _, _, _, _)
best_route_from_weak(reserves, routes, i, best_route, best_profit) ==
    IF i > Len(routes)
    THEN [kind |-> "Ok", route |-> best_route]
    ELSE LET profit == simulate_trade(reserves, routes[i])
         IN IF profit.kind # "Ok"
            THEN [kind |-> profit.kind, route |-> <<>>]
            ELSE IF profit.value >= best_profit
                 THEN best_route_from_weak(reserves, routes, i + 1,
                                           routes[i], profit.value)
                 ELSE best_route_from_weak(reserves, routes, i + 1,
                                           best_route, best_profit)

\* for route in routes from index i on (lib.rs:273-279); a failed
\* simulate_trade returns its error.
RECURSIVE best_route_from(_, _, _, _, _)
best_route_from(reserves, routes, i, best_route, best_profit) ==
    IF i > Len(routes)
    THEN [kind |-> "Ok", route |-> best_route]
    ELSE LET profit == simulate_trade(reserves, routes[i])
         IN IF profit.kind # "Ok"
            THEN [kind |-> profit.kind, route |-> <<>>]
            ELSE IF profit.value > best_profit
                 THEN best_route_from(reserves, routes, i + 1,
                                      routes[i], profit.value)
                 ELSE best_route_from(reserves, routes, i + 1,
                                      best_route, best_profit)

\* find_optimal_route(token_in, token_out) (lib.rs:263-282)
find_optimal_route(tp, reserves, token_in, token_out) ==
    LET routes == get_all_routes(tp, token_in, token_out)
    IN IF routes.kind # "Ok"
       THEN [kind |-> routes.kind, route |-> <<>>]
       ELSE best_route_from(reserves, routes.routes, 1, <<>>, 0)

\* for &amount in &amounts from index k on (lib.rs:342-348)
RECURSIVE optimal_amount_from(_, _, _, _, _)
optimal_amount_from(reserves, path, k, optimal_amount, max_profit) ==
    IF k > Len(TradeSizes)
    THEN [kind |-> "Ok", value |-> optimal_amount]
    ELSE LET profit == simulate_trade_with_amount(reserves, path, TradeSizes[k])
         IN IF profit.kind # "Ok"
            THEN [kind |-> profit.kind, value |-> 0]
            ELSE IF profit.value > max_profit
                 THEN optimal_amount_from(reserves, path, k + 1,
                                          TradeSizes[k], profit.value)
                 ELSE optimal_amount_from(reserves, path, k + 1,
                                          optimal_amount, max_profit)

\* calculate_optimal_amount(path) (lib.rs:332-351)
calculate_optimal_amount(reserves, path) ==
    optimal_amount_from(reserves, path, 1, 0, 0)

\* The reserves the pairs of a searched graph report: reserve_in = ReserveIn.
SearchReserves ==
    [Addr -> ({ReserveIn} \X ReserveOuts) \cup {<<>>}]

\* The tokens a search runs between. Graphs and reserves range over all
\* addresses alike, so one ordered pair of distinct tokens stands for all.
SearchTokens == {<<"A", "C">>}

\* check_opportunities, lib.rs:129-130: let optimal_route =
\* find_optimal_route(a, b).await?; let amount =
\* calculate_optimal_amount(&optimal_route).await?
FindRouteAndAmount ==
    /\ ~search_out.called
    /\ \E tp \in TokenGraphs, reserves \in SearchReserves,
          tokens \in SearchTokens :
          LET token_in == tokens[1]
              token_out == tokens[2]
              optimal_route ==
                  find_optimal_route(tp, reserves, token_in, token_out)
          IN search_out' =
                    [called |-> TRUE, token_pairs |-> tp,
                     reserves |-> reserves, token_in |-> token_in,
                     token_out |-> token_out,
                     route |-> optimal_route,
                     amount |-> IF optimal_route.kind = "Ok"
                                THEN calculate_optimal_amount(
                                         reserves, optimal_route.route)
                                ELSE NoValue]
    /\ UNCHANGED <<chain_block, relayVars, last_send, mempoolVars,
                   statusVars, quote_out, trade_out, routes_out, botVars>>

NextSearch ==
    \/ FindRouteAndAmount

SpecSearch == Init /\ [][NextSearch]_vars

\* The routes the last search enumerated, and the profit of a path at a size.
SearchedRoutes ==
    get_all_routes(search_out.token_pairs, search_out.token_in,
                   search_out.token_out).routes

SearchedProfit(path, amount) ==
    simulate_trade_with_amount(search_out.reserves, path, amount)

\* Every reserve read of every enumerated route succeeds.
SearchReadsOk ==
    \A n \in 1 .. Len(SearchedRoutes) :
        SearchedProfit(SearchedRoutes[n], ONE_MATIC).kind = "Ok"

(***************************************************************************)
(* C14: the route of find_optimal_route with the amount of                 *)
(* calculate_optimal_amount is the (path, amount) pair of greatest profit: *)
(* its profit is at least that of every enumerated path at each of the     *)
(* three trade sizes.                                                      *)
(***************************************************************************)
C14_BestPathAndAmount ==
    (/\ search_out.called
     /\ search_out.route.kind = "Ok"
     /\ search_out.route.route # <<>>
     /\ search_out.amount.kind = "Ok"
     /\ SearchReadsOk) =>
        \A n \in 1 .. Len(SearchedRoutes), k \in 1 .. Len(TradeSizes) :
            SearchedProfit(search_out.route.route, search_out.amount.value).value
                >= SearchedProfit(SearchedRoutes[n], TradeSizes[k]).value

(***************************************************************************)
(* C15: whenever a single-hop path and a two-hop path have equal profit    *)
(* and that profit is the maximum, find_optimal_route returns the          *)
(* single-hop path, in whatever order the adjacency lists present the      *)
(* routes.                                                                 *)
(***************************************************************************)
C15_TieGoesToSingleHop ==
    (/\ search_out.called
     /\ search_out.route.kind = "Ok"
     /\ \E m \in 1 .. Len(SearchedRoutes), n \in 1 .. Len(SearchedRoutes) :
           /\ Len(SearchedRoutes[m]) = 2
           /\ Len(SearchedRoutes[n]) = 3
           /\ SearchedProfit(SearchedRoutes[m], ONE_MATIC).value
                  = SearchedProfit(SearchedRoutes[n], ONE_MATIC).value
           /\ SearchedProfit(SearchedRoutes[m], ONE_MATIC).value > 0
           /\ \A l \in 1 .. Len(SearchedRoutes) :
                  SearchedProfit(SearchedRoutes[l], ONE_MATIC).value
                      <= SearchedProfit(SearchedRoutes[m], ONE_MATIC).value) =>
        Len(search_out.route.route) = 2

(***************************************************************************)
(* C16: find_optimal_route returns an empty path exactly when no           *)
(* enumerated route yields a strictly positive profit, and a non-empty     *)
(* path it returns has a strictly positive simulated profit.               *)
(***************************************************************************)
C16_EmptyIffNoProfit ==
    (search_out.called /\ search_out.route.kind = "Ok") =>
        /\ (search_out.route.route = <<>>) <=>
               (\A n \in 1 .. Len(SearchedRoutes) :
                    simulate_trade(search_out.reserves,
                                   SearchedRoutes[n]).value <= 0)
        /\ (search_out.route.route # <<>>) =>
               simulate_trade(search_out.reserves,
                              search_out.route.route).value > 0

\* Routes were enumerated and none of them is profitable: the empty path.
C16_Witness ==
    /\ search_out.called
    /\ search_out.route.kind = "Ok"
    /\ Len(SearchedRoutes) >= 2
    /\ search_out.route.route = <<>>

(***************************************************************************)
(* lib.rs: MevBot::check_opportunities                                     *)
(***************************************************************************)
\* reserve0 / reserve1 as an f64: a positive number, 0.0, infinity or NaN.
price_class(reserve0, reserve1) ==
    IF reserve1 = 0
    THEN IF reserve0 = 0 THEN "nan" ELSE "inf"
    ELSE IF reserve0 = 0 THEN "zero" ELSE "pos"

\* (price_a - price_b).abs() / price_a > 0.01 (lib.rs:161), the quotient
\* taken exactly: for two positive prices it is |a0 * b1 - b0 * a1| over
\* a0 * b1; a comparison with NaN is false.
price_gap(a0, a1, b0, b1) ==
    LET ca == price_class(a0, a1)
        cb == price_class(b0, b1)
        diff == IF a0 * b1 >= b0 * a1
                THEN a0 * b1 - b0 * a1
                ELSE b0 * a1 - a0 * b1
    IN CASE ca = "nan" \/ cb = "nan" -> FALSE
         [] ca = "inf" -> FALSE
         [] ca = "zero" -> cb # "zero"
         [] cb = "zero" \/ cb = "inf" -> TRUE
         [] OTHER -> diff > (a0 * b1) \div 100

\* analyze_opportunity, lib.rs:149-165: the nested loops from iteration k
\* (counted from 0, row by row) on.
RECURSIVE analyze_from(_, _, _, _)
analyze_from(reserves, pairs_a, pairs_b, k) ==
    IF k >= Len(pairs_a) * Len(pairs_b)
    THEN [kind |-> "Ok", value |-> FALSE]
    ELSE LET pair_a == pairs_a[(k \div Len(pairs_b)) + 1]
             pair_b == pairs_b[(k % Len(pairs_b)) + 1]
             ra == get_reserves(reserves, pair_a)
             rb == get_reserves(reserves, pair_b)
         IN IF pair_a = pair_b
            THEN analyze_from(reserves, pairs_a, pairs_b, k + 1)
            ELSE IF ra.kind # "Ok" \/ rb.kind # "Ok"
                 THEN [kind |-> "Err", value |-> FALSE]
                 ELSE IF price_gap(ra.reserve_in, ra.reserve_out,
                                   rb.reserve_in, rb.reserve_out)
                      THEN [kind |-> "Ok", value |-> TRUE]
                      ELSE analyze_from(reserves, pairs_a, pairs_b, k + 1)

\* analyze_opportunity(_token_a, _token_b, pairs_a, pairs_b) (lib.rs:142-167)
analyze_opportunity(reserves, pairs_a, pairs_b) ==
    analyze_from(reserves, pairs_a, pairs_b, 0)

\* No transaction.
NoTx == [sent |-> FALSE, path |-> <<>>, amount0 |-> 0, amount1 |-> 0,
         amounts |-> <<>>]

\* execute_arbitrage(path) (lib.rs:194-261). net is what the node does with
\* the gas price, nonce and send calls and with the receipt: "ok", "err" (a
\* call fails) or "no_receipt" (the receipt is None and expect() panics).
execute_arbitrage(reserves, path, net) ==
    IF Len(path) < 2
    THEN [kind |-> "Err", tx |-> NoTx]
    ELSE IF \E i \in 1 .. Len(path) - 1 :
                get_reserves(reserves, path[i]).kind # "Ok"
         THEN [kind |-> "Err", tx |-> NoTx]
         ELSE LET amount_in == ONE_MATIC
                  amounts == [i \in 1 .. Len(path) - 1 |-> amount_in]
                  call == [sent |-> TRUE, path |-> path,
                           amount0 |-> amounts[1], amount1 |-> 0,
                           amounts |-> amounts]
              IN CASE net = "err" -> [kind |-> "Err", tx |-> NoTx]
                   [] net = "no_receipt" -> [kind |-> "Panic", tx |-> call]
                   [] OTHER -> [kind |-> "Ok", tx |-> call]

\* What the node does with the executions of one check_opportunities: the
\* fail_at-th execution (none if 0) fails with how.
ExecNets ==
    {[fail_at |-> 0, how |-> "ok"]}
        \cup [fail_at : 1 .. MaxExecutions, how : {"err", "no_receipt"}]

\* The orders in which a HashMap may iterate its keys.
KeyOrders(tp) ==
    LET n == Cardinality(DOMAIN tp)
    IN {order \in [1 .. n -> DOMAIN tp] :
            \A i \in 1 .. n, j \in 1 .. n : i # j => order[i] # order[j]}

\* The number of transactions the visits so far have sent.
RECURSIVE executions(_)
executions(visited) ==
    IF visited = <<>>
    THEN 0
    ELSE executions(SubSeq(visited, 1, Len(visited) - 1))
             + (IF visited[Len(visited)].tx.sent THEN 1 ELSE 0)

\* check_opportunities, lib.rs:122-137: the nested loops over the keys of
\* token_pairs from iteration k (counted from 0, row by row) on. visited is
\* the record of the pairs of tokens gone through so far: what
\* analyze_opportunity said, the route, the amount and the transaction.
RECURSIVE check_from(_, _, _, _, _, _)
check_from(tp, reserves, order, net, k, visited) ==
    LET n == Len(order)
    IN IF k >= n * n
       THEN [kind |-> "Ok", visited |-> visited]
       ELSE LET token_a == order[(k \div n) + 1]
                token_b == order[(k % n) + 1]
                visit == [token_a |-> token_a, token_b |-> token_b,
                          analyzed |-> FALSE, route |-> <<>>,
                          amount |-> NoValue, tx |-> NoTx]
                analyzed == analyze_opportunity(reserves, tp[token_a],
                                                tp[token_b])
                optimal_route == find_optimal_route(tp, reserves, token_a,
                                                    token_b)
                amount == calculate_optimal_amount(reserves,
                                                   optimal_route.route)
                net_now == IF executions(visited) + 1 = net.fail_at
                           THEN net.how
                           ELSE "ok"
                receipt == execute_arbitrage(reserves, optimal_route.route,
                                             net_now)
            IN IF token_a = token_b
               THEN check_from(tp, reserves, order, net, k + 1, visited)
               ELSE IF analyzed.kind # "Ok"
               THEN [kind |-> analyzed.kind, visited |-> Append(visited, visit)]
               ELSE IF ~analyzed.value
               THEN check_from(tp, reserves, order, net, k + 1,
                               Append(visited, visit))
               ELSE IF optimal_route.kind # "Ok"
               THEN [kind |-> optimal_route.kind,
                     visited |-> Append(visited,
                                        [visit EXCEPT !.analyzed = TRUE])]
               ELSE IF amount.kind # "Ok"
               THEN [kind |-> amount.kind,
                     visited |-> Append(visited,
                                        [visit EXCEPT
                                            !.analyzed = TRUE,
                                            !.route = optimal_route.route,
                                            !.amount = amount])]
               ELSE IF ~(amount.value > 0)
               THEN check_from(tp, reserves, order, net, k + 1,
                               Append(visited,
                                      [visit EXCEPT
                                          !.analyzed = TRUE,
                                          !.route = optimal_route.route,
                                          !.amount = amount]))
               ELSE IF receipt.kind # "Ok"
               THEN [kind |-> receipt.kind,
                     visited |-> Append(visited,
                                        [visit EXCEPT
                                            !.analyzed = TRUE,
                                            !.route = optimal_route.route,
                                            !.amount = amount,
                                            !.tx = receipt.tx])]
               ELSE check_from(tp, reserves, order, net, k + 1,
                               Append(visited,
                                      [visit EXCEPT
                                          !.analyzed = TRUE,
                                          !.route = optimal_route.route,
                                          !.amount = amount,
                                          !.tx = receipt.tx]))

\* check_opportunities() (lib.rs:119-140)
check_opportunities(tp, reserves, order, net) ==
    check_from(tp, reserves, order, net, 0, <<>>)

(***************************************************************************)
(* lib.rs: MevBot::monitor_blocks                                          *)
(***************************************************************************)
\* The reserves the pairs report during one check_opportunities.
NodeReserves ==
    [PairAddr -> ({ReserveIn} \X ReserveOuts) \cup {<<>>}]

NoCheck == [called |-> FALSE, result |-> None, visited |-> <<>>]

\* The mutant: the graph is not cleared before it is rebuilt.
PollKeepsGraph ==
    /\ bot_pc = "poll"
    /\ \E ok \in BOOLEAN :
          IF ~ok
          THEN /\ bot_pc' = "returned_err"
               /\ UNCHANGED <<block_number, token_pairs, upd, rebuilt>>
          ELSE /\ block_number' = chain_block
               /\ IF chain_block > last_block
                  THEN /\ UNCHANGED token_pairs
                       /\ rebuilt' = 0
                       /\ upd' = [factory |-> 1, pairs_length |-> 0, i |-> 0]
                       /\ bot_pc' = "update_factory"
                  ELSE /\ bot_pc' = "sleep"
                       /\ UNCHANGED <<token_pairs, upd, rebuilt>>
    /\ UNCHANGED <<chain_block, relayVars, last_send, mempoolVars,
                   statusVars, pricingVars, last_block, checked, check_out>>

\* The mutant: the graph is rebuilt and checked on every tick.
PollEveryTick ==
    /\ bot_pc = "poll"
    /\ \E ok \in BOOLEAN :
          IF ~ok
          THEN /\ bot_pc' = "returned_err"
               /\ UNCHANGED <<block_number, token_pairs, upd, rebuilt>>
          ELSE /\ block_number' = chain_block
               /\ IF chain_block >= last_block
                  THEN /\ token_pairs' = EmptyMap
                       /\ rebuilt' = 0
                       /\ upd' = [factory |-> 1, pairs_length |-> 0, i |-> 0]
                       /\ bot_pc' = "update_factory"
                  ELSE /\ bot_pc' = "sleep"
                       /\ UNCHANGED <<token_pairs, upd, rebuilt>>
    /\ UNCHANGED <<chain_block, relayVars, last_send, mempoolVars,
                   statusVars, pricingVars, last_block, checked, check_out>>

\* lib.rs:106-110 and 170: let block_number = get_block_number().await?; on a
\* new block update_token_pairs starts with self.token_pairs.clear().
Poll ==
    /\ bot_pc = "poll"
    /\ \E ok \in BOOLEAN :
          IF ~ok
          THEN /\ bot_pc' = "returned_err"
               /\ UNCHANGED <<block_number, token_pairs, upd, rebuilt>>
          ELSE /\ block_number' = chain_block
               /\ IF chain_block > last_block
                  THEN /\ token_pairs' = EmptyMap
                       /\ rebuilt' = 0
                       /\ upd' = [factory |-> 1, pairs_length |-> 0, i |-> 0]
                       /\ bot_pc' = "update_factory"
                  ELSE /\ bot_pc' = "sleep"
                       /\ UNCHANGED <<token_pairs, upd, rebuilt>>
    /\ UNCHANGED <<chain_block, relayVars, last_send, mempoolVars,
                   statusVars, pricingVars, last_block, checked, check_out>>

\* lib.rs:172-176: pairs_length = factory_contract.get_reserves().call()
\* .await?.0; the call fails, or answers a number as_u64() cannot hold
\* (a panic), or answers the number of iterations.
UpdateFactory ==
    /\ bot_pc = "update_factory"
    /\ \E r \in {"err", "too_large", "length"} :
          CASE r = "err" ->
                 /\ bot_pc' = "returned_err"
                 /\ upd' = NoUpdate
            [] r = "too_large" ->
                 /\ bot_pc' = "panicked"
                 /\ upd' = NoUpdate
            [] OTHER ->
                 \E n \in 0 .. MaxPairs :
                    IF n = 0
                    THEN /\ bot_pc' = after_factory(upd.factory).pc
                         /\ upd' = after_factory(upd.factory).upd
                    ELSE /\ bot_pc' = "update_pair"
                         /\ upd' = [upd EXCEPT !.pairs_length = n, !.i = 0]
    /\ UNCHANGED <<chain_block, relayVars, last_send, mempoolVars,
                   statusVars, pricingVars, last_block, block_number,
                   token_pairs, rebuilt, checked, check_out>>

\* lib.rs:176-189: one iteration of for i in 0..pairs_length: a failed
\* token_0() of the factory skips the iteration, a failed token_0() or
\* token_1() of the pair returns the error, otherwise the pair is pushed under
\* both of its tokens (the two tokens of a pair contract are different).
UpdatePair ==
    /\ bot_pc = "update_pair"
    /\ \E r \in {"skip", "err", "pair"} :
          CASE r = "err" ->
                 /\ bot_pc' = "returned_err"
                 /\ upd' = NoUpdate
                 /\ UNCHANGED <<token_pairs, rebuilt>>
            [] OTHER ->
                 /\ IF r = "skip"
                    THEN UNCHANGED <<token_pairs, rebuilt>>
                    ELSE /\ \E pair_address \in PairAddr, token0 \in PairAddr :
                            \E token1 \in PairAddr \ {token0} :
                               token_pairs' =
                                   push(push(token_pairs, token0, pair_address),
                                        token1, pair_address)
                         /\ rebuilt' = rebuilt + 1
                 /\ IF upd.i + 1 < upd.pairs_length
                    THEN /\ upd' = [upd EXCEPT !.i = upd.i + 1]
                         /\ UNCHANGED bot_pc
                    ELSE /\ bot_pc' = after_factory(upd.factory).pc
                         /\ upd' = after_factory(upd.factory).upd
    /\ UNCHANGED <<chain_block, relayVars, last_send, mempoolVars,
                   statusVars, pricingVars, last_block, block_number,
                   checked, check_out>>

\* lib.rs:111-112: self.check_opportunities().await?; self.last_block =
\* block_number. check_opportunities returns Ok(()), returns the error of a
\* call it awaits, or panics.
CheckOpportunities ==
    /\ bot_pc = "check"
    /\ \E reserves \in NodeReserves, order \in KeyOrders(token_pairs),
          net \in ExecNets :
          LET r == check_opportunities(token_pairs, reserves, order, net)
          IN /\ check_out' = [called |-> TRUE, result |-> r.kind,
                              visited |-> r.visited]
             /\ CASE r.kind = "Ok" ->
                       /\ last_block' = block_number
                       /\ bot_pc' = "sleep"
                  [] r.kind = "Err" ->
                       /\ bot_pc' = "returned_err"
                       /\ UNCHANGED last_block
                  [] OTHER ->
                       /\ bot_pc' = "panicked"
                       /\ UNCHANGED last_block
    /\ checked' = Append(checked, block_number)
    /\ UNCHANGED <<chain_block, relayVars, last_send, mempoolVars,
                   statusVars, pricingVars, block_number, token_pairs, upd,
                   rebuilt>>

\* lib.rs:115: tokio::time::sleep(Duration::from_secs(1)).await; the record
\* of the iteration's check_opportunities ends with the iteration.
Sleep ==
    /\ bot_pc = "sleep"
    /\ bot_pc' = "poll"
    /\ check_out' = NoCheck
    /\ UNCHANGED <<chain_block, relayVars, last_send, mempoolVars,
                   statusVars, pricingVars, last_block, block_number,
                   token_pairs, upd, rebuilt, checked>>

NextBlocks ==
    \/ NewBlock
    \/ Poll
    \/ UpdateFactory
    \/ UpdatePair
    \/ CheckOpportunities
    \/ Sleep

SpecBlocks == Init /\ [][NextBlocks]_vars

(***************************************************************************)
(* C7: in monitor_blocks a network failure on a read path (block-number    *)
(* query, pair-graph refresh, reserve read of the opportunity check) is    *)
(* not fatal: the loop does not return with the error.                     *)
(***************************************************************************)
C7_ReadFailureNotFatal ==
    bot_pc # "returned_err"

\* The number of pool entries in the lists of the keys.
RECURSIVE sum_len(_, _)
sum_len(tp, keys) ==
    IF keys = {}
    THEN 0
    ELSE LET k == CHOOSE x \in keys : TRUE
         IN Len(tp[k]) + sum_len(tp, keys \ {k})

(***************************************************************************)
(* C21: in every reachable state of the loop, during a rebuild, after a    *)
(* rebuild and after a rebuild that failed part-way, every key of          *)
(* token_pairs maps to a list of at least one pool; and after a rebuild    *)
(* that returned Ok the graph holds exactly the entries that rebuild       *)
(* pushed, two per pair, none left over from an earlier block.             *)
(***************************************************************************)
C21_GraphHasNoEmptyOrStaleEntry ==
    /\ \A k \in DOMAIN token_pairs : Len(token_pairs[k]) >= 1
    /\ (bot_pc \in {"check", "sleep"} /\ block_number > 0) =>
           sum_len(token_pairs, DOMAIN token_pairs) = 2 * rebuilt

\* A rebuild returned Ok with pairs in the graph after an earlier block had
\* its graph built and checked.
C21_Witness ==
    /\ bot_pc = "check"
    /\ checked # <<>>
    /\ rebuilt >= 1
    /\ token_pairs # EmptyMap

\* The visits of check_opportunities in which find_optimal_route returned the
\* empty path after analyze_opportunity had passed.
EmptyRouteVisits ==
    {i \in 1 .. Len(check_out.visited) :
        /\ check_out.visited[i].analyzed
        /\ check_out.visited[i].route = <<>>
        /\ check_out.visited[i].amount.kind # None}

(***************************************************************************)
(* C23: when analyze_opportunity passes for a token pair and               *)
(* find_optimal_route returns the empty path, the amount optimisation      *)
(* yields 0 without panicking, no arbitrage is executed for the pair and   *)
(* check_opportunities goes on with the remaining pairs.                   *)
(***************************************************************************)
C23_EmptyRouteIsNoOpportunity ==
    \A i \in EmptyRouteVisits :
        /\ check_out.visited[i].amount = [kind |-> "Ok", value |-> 0]
        /\ ~check_out.visited[i].tx.sent
        /\ (check_out.result = "Panic") => i < Len(check_out.visited)

(***************************************************************************)
(* C24: whenever check_opportunities executes an arbitrage, the borrow     *)
(* amount (amount0) and the first-hop input amount passed to               *)
(* executeFlashLoanArbitrage equal the value calculate_optimal_amount      *)
(* returned for that route.                                                *)
(***************************************************************************)
C24_SubmittedSizeIsOptimalAmount ==
    \A i \in 1 .. Len(check_out.visited) :
        check_out.visited[i].tx.sent =>
            /\ check_out.visited[i].tx.amount0 =
                   check_out.visited[i].amount.value
            /\ check_out.visited[i].tx.amounts[1] =
                   check_out.visited[i].amount.value

\* No block number occurs twice in the sequence.
NoRepeat(s) ==
    \A i \in 1 .. Len(s) : \A j \in 1 .. Len(s) : s[i] = s[j] => i = j

(***************************************************************************)
(* C25: in monitor_blocks last_block never decreases; the graph refresh    *)
(* and the opportunity check run only for a polled block number strictly   *)
(* greater than last_block; last_block is advanced, to that number, only   *)
(* when check_opportunities (hence the refresh before it) has returned     *)
(* Ok; no block number is checked for opportunities more than once.        *)
(***************************************************************************)
C25_BlockCheckedOnceInOrder ==
    [][/\ last_block' >= last_block
       /\ (bot_pc' \in {"update_factory", "update_pair", "check"}) =>
              block_number' > last_block'
       /\ (checked' # checked) =>
              /\ bot_pc = "check"
              /\ block_number > last_block
              /\ checked' = Append(checked, block_number)
       /\ (last_block' # last_block) =>
              /\ bot_pc = "check"
              /\ bot_pc' = "sleep"
              /\ check_out'.result = "Ok"
              /\ last_block' = block_number
       /\ NoRepeat(checked')]_vars

\* Two blocks were refreshed and checked, and last_block is the second.
C25_Witness ==
    /\ Len(checked) >= 2
    /\ last_block = checked[2]
    /\ bot_pc = "sleep"

(***************************************************************************)
(* The whole system: every component beside the others.                    *)
(***************************************************************************)
Next ==
    \/ NextValidate
    \/ NextRelay
    \/ NextMempool
    \/ NextStatus
    \/ NextPricing
    \/ NextBlocks
    \/ NextTrade
    \/ NextRoutes
    \/ NextSearch

Spec == Init /\ [][Next]_vars

=============================================================================
